---- MODULE Spec2Model ----
(***************************************************************************)
(* Model of scale_jittering_tensor_with_fixed_size_output                  *)
(* (tf_image_segmentation/utils/augmentation.py).                          *)
(*                                                                         *)
(* The function is a straight-line pipeline; each step of the pipeline is  *)
(* one action and pc records the position in the function body.  Tensors   *)
(* of shape (H, W, .) are sequences of H rows of W pixels; a pixel of the  *)
(* image stands for its whole channel vector (every step of the function   *)
(* treats the channels of a pixel alike).  Index i of the code (0-based)   *)
(* is index i+1 of a sequence.                                             *)
(*                                                                         *)
(* float32 values are records [m, e] denoting m * 2^e with m odd (or 0),   *)
(* m < 2^MantBits, and every float32 operation rounds its exact result to  *)
(* the nearest such value, ties to even, as IEEE-754 single precision does.*)
(***************************************************************************)
EXTENDS Integers, Sequences, FiniteSets, TLC

\* Largest input height/width and largest output height/width explored.
MaxIn == 3
MaxOut == 4

\* Width of the float32 significand (tf.to_float, line 62).
MantBits == 24
\* Largest int32 (tf.to_int32, line 57).
MaxInt32 == 2147483647

Min(a, b) == IF a <= b THEN a ELSE b
Max(a, b) == IF a >= b THEN a ELSE b

---------------------------------------------------------------------------
(* float32 arithmetic                                                      *)

F32Zero == [m |-> 0, e |-> 0]

RECURSIVE StripZeros(_, _)
StripZeros(m, e) ==
    IF m = 0 THEN F32Zero
    ELSE IF m % 2 = 0 THEN StripZeros(m \div 2, e + 1)
    ELSE [m |-> m, e |-> e]

RECURSIVE BitLen(_)
BitLen(n) == IF n = 0 THEN 0 ELSE 1 + BitLen(n \div 2)

\* The float32 nearest to the exact value n * 2^e (n >= 0), ties to even.
F32Round(n, e) ==
    LET s == BitLen(n) - MantBits IN
    IF s <= 0 THEN StripZeros(n, e)
    ELSE LET d   == 2^s
             q   == n \div d
             rem == n % d
             up  == (2 * rem > d) \/ (2 * rem = d /\ q % 2 = 1)
         IN  StripZeros(IF up THEN q + 1 ELSE q, e + s)

\* tf.to_float of a small non-negative integer (exact).
IntToF32(n) == StripZeros(n, 0)

\* x * y, correctly rounded.
F32Mul(x, y) == F32Round(x.m * y.m, x.e + y.e)

\* x / y (y > 0), correctly rounded: a quotient of at least MantBits + 2 bits
\* with the remainder folded into a sticky bit, then rounded once.
F32Div(x, y) ==
    IF x.m = 0 THEN F32Zero
    ELSE LET k      == MantBits + 2 + BitLen(y.m) - BitLen(x.m)
             num    == x.m * 2^k
             q      == num \div y.m
             sticky == IF num % y.m = 0 THEN 0 ELSE 1
         IN  F32Round(2 * q + sticky, x.e - y.e - k - 1)

F32Less(x, y) ==
    LET e == Min(x.e, y.e) IN x.m * 2^(x.e - e) < y.m * 2^(y.e - e)

F32Min(x, y) == IF F32Less(y, x) THEN y ELSE x

\* floorf(x) as an integer, x >= 0.
F32Floor(x) == IF x.e >= 0 THEN x.m * 2^x.e ELSE x.m \div 2^(-x.e)

\* tf.to_int32(tf.round(x)), x >= 0: tf.round rounds half to even.
RoundHalfEven(x) ==
    IF x.e >= 0 THEN x.m * 2^x.e
    ELSE LET d   == 2^(-x.e)
             q   == x.m \div d
             rem == x.m % d
         IN  IF 2 * rem > d \/ (2 * rem = d /\ q % 2 = 1) THEN q + 1 ELSE q

---------------------------------------------------------------------------
(* int32 arithmetic                                                        *)

\* a + b in int32 (two's complement wrap-around).
Add32(a, b) ==
    IF b > 0 /\ a > MaxInt32 - b
        THEN (a - MaxInt32 - 1) + (b - MaxInt32 - 1)
    ELSE IF b < 0 /\ a < (-MaxInt32 - 1) - b
        THEN (a + MaxInt32 + 1) + (b + MaxInt32 + 1)
    ELSE a + b

---------------------------------------------------------------------------
(* tensors                                                                 *)

Height(a) == Len(a)
Width(a) == IF Len(a) = 0 THEN 0 ELSE Len(a[1])
Shape(a) == <<Height(a), Width(a)>>
Empty == <<>>

---------------------------------------------------------------------------
(* the steps of the function                                               *)

\* Lines 60-64: the per-axis factors that fit the input into output_shape.
Scales(input_shape, out_shape) ==
    <<F32Div(IntToF32(out_shape[1]), IntToF32(input_shape[1])),
      F32Div(IntToF32(out_shape[2]), IntToF32(input_shape[2]))>>

\* Variant of FinalScale: the largest per-axis factor instead of the smallest.
FinalScaleMax(scales, r) ==
    F32Mul(IF F32Less(scales[1], scales[2]) THEN scales[2] ELSE scales[1], r)

\* Line 70: tf.reduce_min(scales) * rand_var.
FinalScale(scales, r) == F32Mul(F32Min(scales[1], scales[2]), r)

\* Line 72: tf.to_int32(tf.round(input_shape_float * final_scale)).
ScaledInputShape(input_shape, final_scale) ==
    <<RoundHalfEven(F32Mul(IntToF32(input_shape[1]), final_scale)),
      RoundHalfEven(F32Mul(IntToF32(input_shape[2]), final_scale))>>

\* Variant of CanDraw: minval and maxval not handed on, so that the draw
\* comes from tf.random_uniform's default range [0, 1).
CanDrawDefaultRange(r, minval, maxval) == F32Less(r, [m |-> 1, e |-> 0])

\* Lines 66-68: the values tf.random_uniform(minval, maxval) can return:
\* minval + u * (maxval - minval) with u in [0, 1).
CanDraw(r, minval, maxval) ==
    \/ minval = maxval /\ r = minval
    \/ ~F32Less(r, minval) /\ F32Less(r, maxval)

\* The input sample the nearest-neighbour kernel reads for output index y:
\* min(floorf(y * scale), in_size - 1), scale = in_size / (float) out_size.
NNIndex(y, scale, in_size) ==
    Min(F32Floor(F32Mul(IntToF32(y), scale)), in_size - 1)

\* Lines 78-82: tf.image.resize_nearest_neighbor(a, size), size > 0.
ResizeNearestNeighbor(a, size) ==
    LET in_height    == Height(a)
        in_width     == Width(a)
        height_scale == F32Div(IntToF32(in_height), IntToF32(size[1]))
        width_scale  == F32Div(IntToF32(in_width), IntToF32(size[2]))
    IN  [y \in 1..size[1] |-> [x \in 1..size[2] |->
            a[NNIndex(y - 1, height_scale, in_height) + 1]
             [NNIndex(x - 1, width_scale, in_width) + 1]]]

\* Variant of ShiftClass: the shift left out.
ShiftClassNone(c) == c

\* Variant of ShiftClass: the shift done on the 8-bit value, not widened.
ShiftClass8(c) == (c + 1) % 256

\* Line 87: resized_annotation + 1 on int32 values.
ShiftClass(c) == Add32(c, 1)

\* resize_image_with_crop_or_pad: offset of the crop window in the source.
OffsetCrop(size, target) == Max((-(target - size)) \div 2, 0)

\* Variant of OffsetPad: all the padding placed after the content.
OffsetPadNone(size, target) == 0

\* resize_image_with_crop_or_pad: number of zeros padded before the content.
OffsetPad(size, target) == Max((target - size) \div 2, 0)

\* Variant of ResizeImageWithCropOrPad: pads a smaller input, never crops.
ResizeImageWithPadOnly(a, target_height, target_width) ==
    LET pad_h == OffsetPad(Height(a), target_height)
        pad_w == OffsetPad(Width(a), target_width)
    IN  [y \in 1..Max(Height(a), target_height) |->
            [x \in 1..Max(Width(a), target_width) |->
                IF /\ y > pad_h /\ y <= pad_h + Height(a)
                   /\ x > pad_w /\ x <= pad_w + Width(a)
                THEN a[y - pad_h][x - pad_w]
                ELSE 0]]

\* Lines 89-93: tf.image.resize_image_with_crop_or_pad(a, th, tw): a central
\* crop to min(size, target) on each axis, then zero padding to the target.
ResizeImageWithCropOrPad(a, target_height, target_width) ==
    LET height  == Height(a)
        width   == Width(a)
        crop_h  == OffsetCrop(height, target_height)
        crop_w  == OffsetCrop(width, target_width)
        pad_h   == OffsetPad(height, target_height)
        pad_w   == OffsetPad(width, target_width)
        keep_h  == Min(target_height, height)
        keep_w  == Min(target_width, width)
    IN  [y \in 1..target_height |-> [x \in 1..target_width |->
            IF /\ y > pad_h /\ y <= pad_h + keep_h
               /\ x > pad_w /\ x <= pad_w + keep_w
            THEN a[y - pad_h + crop_h][x - pad_w + crop_w]
            ELSE 0]]

\* Variant of CropOrPadAnnotation: the annotation anchored at the top left
\* corner instead of the centre.
CropOrPadAnnotationTopLeft(a, out_shape) ==
    [y \in 1..out_shape[1] |-> [x \in 1..out_shape[2] |->
        IF y <= Height(a) /\ x <= Width(a) THEN a[y][x] ELSE 0]]

\* Lines 91-93: the crop-or-pad of the shifted annotation.
CropOrPadAnnotation(a, out_shape) ==
    ResizeImageWithCropOrPad(a, out_shape[1], out_shape[2])

\* Line 97: tf.to_int32(tf.equal(v, 0)) * (mask_out_number + 1).
AdditionalMaskOut(v, mask) == IF v = 0 THEN mask + 1 ELSE 0

\* Variant of MaskOutClass: the classes not shifted back.
MaskOutClassNoUnshift(v, mask) == Add32(v, AdditionalMaskOut(v, mask))

\* Line 99: v + annotation_additional_mask_out - 1.
MaskOutClass(v, mask) == Add32(Add32(v, AdditionalMaskOut(v, mask)), -1)

---------------------------------------------------------------------------
(* inputs                                                                  *)

\* Class ids of an annotation stored with 8 bits per pixel.
ClassIds == <<0, 1, 255>>

\* Values of mask_out_number.
MaskVals == {255, -1}

\* float32 values of the scale bounds and of the draw: 0.5, 1.0, 1.5.
RandVals == {[m |-> 1, e |-> -1], [m |-> 1, e |-> 0], [m |-> 3, e |-> -1]}

One == [m |-> 1, e |-> 0]
Half == [m |-> 1, e |-> -1]

\* An annotation of shape (h, w, 1) whose classes vary along the rows (a),
\* the columns (b), both or neither, starting from class number c.
Annotation(h, w, a, b, c) ==
    [i \in 1..h |-> [j \in 1..w |->
        ClassIds[((a * (i - 1) + b * (j - 1) + c) % Len(ClassIds)) + 1]]]

\* An image of shape (h, w, .) whose pixels are pairwise different.
Image(h, w, base) == [i \in 1..h |-> [j \in 1..w |-> (i - 1) * w + (j - 1) + base]]

---------------------------------------------------------------------------
(* the state machine                                                       *)

VARIABLES
    img_tensor, annotation_tensor, output_shape,
    min_relative_random_scale_change, max_realtive_random_scale_change,
    mask_out_number,
    pc,
    rand_var, scaled_input_shape,
    resized_img, resized_annotation,
    annotation_shifted_classes,
    cropped_padded_img, cropped_padded_annotation

args == <<img_tensor, annotation_tensor, output_shape,
          min_relative_random_scale_change, max_realtive_random_scale_change,
          mask_out_number>>

vars == <<img_tensor, annotation_tensor, output_shape,
          min_relative_random_scale_change, max_realtive_random_scale_change,
          mask_out_number, pc, rand_var, scaled_input_shape,
          resized_img, resized_annotation, annotation_shifted_classes,
          cropped_padded_img, cropped_padded_annotation>>

\* The call: any image and annotation of equal height and width >= 1, any
\* output_shape > 0, any bounds with min <= max, any mask_out_number.
Init ==
    /\ \E h \in 1..MaxIn, w \in 1..MaxIn :
         /\ \E base \in {0, 1} : img_tensor = Image(h, w, base)
         /\ \E a \in {0, 1}, b \in {0, 1}, c \in 0..(Len(ClassIds) - 1) :
                annotation_tensor = Annotation(h, w, a, b, c)
    /\ output_shape \in (1..MaxOut) \X (1..MaxOut)
    /\ min_relative_random_scale_change \in RandVals
    /\ max_realtive_random_scale_change \in RandVals
    /\ ~F32Less(max_realtive_random_scale_change, min_relative_random_scale_change)
    /\ mask_out_number \in MaskVals
    /\ pc = "start"
    /\ rand_var = F32Zero
    /\ scaled_input_shape = <<0, 0>>
    /\ resized_img = Empty
    /\ resized_annotation = Empty
    /\ annotation_shifted_classes = Empty
    /\ cropped_padded_img = Empty
    /\ cropped_padded_annotation = Empty

\* Lines 51-72: draw rand_var and compute the scaled shape.
ComputeScaledShape ==
    /\ pc = "start"
    /\ \E r \in RandVals :
         /\ CanDraw(r, min_relative_random_scale_change,
                       max_realtive_random_scale_change)
         /\ rand_var' = r
         /\ scaled_input_shape' =
                ScaledInputShape(Shape(img_tensor),
                                 FinalScale(Scales(Shape(img_tensor), output_shape), r))
    /\ pc' = "scaled"
    /\ UNCHANGED <<args, resized_img, resized_annotation,
                   annotation_shifted_classes,
                   cropped_padded_img, cropped_padded_annotation>>

\* Lines 78-82: resize the image and the annotation to the scaled shape.
Resize ==
    /\ pc = "scaled"
    /\ scaled_input_shape[1] > 0
    /\ scaled_input_shape[2] > 0
    /\ resized_img' = ResizeNearestNeighbor(img_tensor, scaled_input_shape)
    /\ resized_annotation' =
            ResizeNearestNeighbor(annotation_tensor, scaled_input_shape)
    /\ pc' = "resized"
    /\ UNCHANGED <<args, rand_var, scaled_input_shape,
                   annotation_shifted_classes,
                   cropped_padded_img, cropped_padded_annotation>>

\* Line 78: the resize kernel rejects a size that is not positive
\* (InvalidArgument: output dimensions must be positive); the call raises.
ResizeRaises ==
    /\ pc = "scaled"
    /\ (scaled_input_shape[1] <= 0 \/ scaled_input_shape[2] <= 0)
    /\ pc' = "error"
    /\ UNCHANGED <<args, rand_var, scaled_input_shape,
                   resized_img, resized_annotation,
                   annotation_shifted_classes,
                   cropped_padded_img, cropped_padded_annotation>>

\* Line 87: shift all the classes by one.
ShiftClasses ==
    /\ pc = "resized"
    /\ annotation_shifted_classes' =
            [i \in 1..Height(resized_annotation) |->
                [j \in 1..Width(resized_annotation) |->
                    ShiftClass(resized_annotation[i][j])]]
    /\ pc' = "shifted"
    /\ UNCHANGED <<args, rand_var, scaled_input_shape,
                   resized_img, resized_annotation,
                   cropped_padded_img, cropped_padded_annotation>>

\* Lines 89-93: crop or pad the image and the shifted annotation.
CropOrPad ==
    /\ pc = "shifted"
    /\ cropped_padded_img' =
            ResizeImageWithCropOrPad(resized_img, output_shape[1], output_shape[2])
    /\ cropped_padded_annotation' =
            CropOrPadAnnotation(annotation_shifted_classes, output_shape)
    /\ pc' = "cropped"
    /\ UNCHANGED <<args, rand_var, scaled_input_shape,
                   resized_img, resized_annotation,
                   annotation_shifted_classes>>

\* Lines 97-101: mask out the padding, shift the classes back and return.
MaskOut ==
    /\ pc = "cropped"
    /\ cropped_padded_annotation' =
            [y \in 1..Height(cropped_padded_annotation) |->
                [x \in 1..Width(cropped_padded_annotation) |->
                    MaskOutClass(cropped_padded_annotation[y][x], mask_out_number)]]
    /\ pc' = "done"
    /\ UNCHANGED <<args, rand_var, scaled_input_shape,
                   resized_img, resized_annotation,
                   annotation_shifted_classes, cropped_padded_img>>

Next ==
    \/ ComputeScaledShape
    \/ Resize
    \/ ResizeRaises
    \/ ShiftClasses
    \/ CropOrPad
    \/ MaskOut

Spec == Init /\ [][Next]_vars

---------------------------------------------------------------------------
(* vocabulary of the properties                                            *)

InputShape == Shape(img_tensor)
OutRows == 1..output_shape[1]
OutCols == 1..output_shape[2]
ClassesPresent ==
    {annotation_tensor[i][j] : i \in 1..InputShape[1], j \in 1..InputShape[2]}

\* Rows/columns of zeros before the content, offset of the crop window and
\* extent of the content along axis k (1: height, 2: width).
PadBefore(k) == OffsetPad(scaled_input_shape[k], output_shape[k])
CropBefore(k) == OffsetCrop(scaled_input_shape[k], output_shape[k])
Kept(k) == Min(scaled_input_shape[k], output_shape[k])

\* Output position (y, x) lies outside the resized content.
IsPadPos(y, x) ==
    ~ /\ y > PadBefore(1) /\ y <= PadBefore(1) + Kept(1)
      /\ x > PadBefore(2) /\ x <= PadBefore(2) + Kept(2)

\* The input index along axis k that output index p (not padding) shows.
SourceIndex(p, k) ==
    NNIndex(p - PadBefore(k) + CropBefore(k) - 1,
            F32Div(IntToF32(InputShape[k]), IntToF32(scaled_input_shape[k])),
            InputShape[k]) + 1

\* Axis k is the one that limits the fit: output/input is smallest there.
Constraining(k) ==
    output_shape[k] * InputShape[3 - k] <= output_shape[3 - k] * InputShape[k]

SomePad == \E y \in OutRows, x \in OutCols : IsPadPos(y, x)
SomeContent == \E y \in OutRows, x \in OutCols : ~IsPadPos(y, x)

---------------------------------------------------------------------------
(* C1 *)

\* C1: whenever the function returns, the returned image and the returned
\* annotation both have exactly the height and width of output_shape.
C1_OutputShape ==
    pc = "done" =>
        /\ Shape(cropped_padded_img) = output_shape
        /\ Shape(cropped_padded_annotation) = output_shape

\* A return where the scaled shape was padded along the height and cropped
\* along the width.
C1_Witness ==
    /\ pc = "done"
    /\ scaled_input_shape[1] < output_shape[1]
    /\ scaled_input_shape[2] > output_shape[2]
    /\ Shape(cropped_padded_img) = output_shape

---------------------------------------------------------------------------
(* C2 *)

\* C2 (as stated): every entry of the returned annotation equals
\* mask_out_number if and only if it is a padding pixel, every other entry
\* is the original class id of the input pixel it shows, and no value
\* outside {mask_out_number} and the input's class ids appears.
C2_AsStated ==
    pc = "done" =>
        \A y \in OutRows, x \in OutCols :
            LET v == cropped_padded_annotation[y][x] IN
            /\ (v = mask_out_number) <=> IsPadPos(y, x)
            /\ ~IsPadPos(y, x) =>
                    v = annotation_tensor[SourceIndex(y, 1)][SourceIndex(x, 2)]
            /\ v \in ClassesPresent \cup {mask_out_number}

\* C2 (amended): every padding pixel of the returned annotation is exactly
\* mask_out_number, every other pixel is exactly the original class id of the
\* input pixel it shows, no other value appears, and when mask_out_number is
\* not a class id of the input an entry equals it if and only if it is a
\* padding pixel.
C2_ClassOrMask ==
    pc = "done" =>
        \A y \in OutRows, x \in OutCols :
            LET v == cropped_padded_annotation[y][x] IN
            /\ IsPadPos(y, x) => v = mask_out_number
            /\ ~IsPadPos(y, x) =>
                    v = annotation_tensor[SourceIndex(y, 1)][SourceIndex(x, 2)]
            /\ v \in ClassesPresent \cup {mask_out_number}
            /\ mask_out_number \notin ClassesPresent =>
                    ((v = mask_out_number) <=> IsPadPos(y, x))

\* A return with padding around content of two classes, one of them class 0,
\* and a mask_out_number that is no class of the input.
C2_Witness ==
    /\ pc = "done"
    /\ mask_out_number \notin ClassesPresent
    /\ \E y \in OutRows, x \in OutCols :
            /\ IsPadPos(y, x)
            /\ cropped_padded_annotation[y][x] = mask_out_number
    /\ \E y \in OutRows, x \in OutCols :
            ~IsPadPos(y, x) /\ cropped_padded_annotation[y][x] = 0
    /\ \E y \in OutRows, x \in OutCols :
            ~IsPadPos(y, x) /\ cropped_padded_annotation[y][x] = 1

---------------------------------------------------------------------------
(* C3 *)

IdentityCall ==
    /\ output_shape = InputShape
    /\ min_relative_random_scale_change = One
    /\ max_realtive_random_scale_change = One

\* C3: with output_shape equal to the input's height and width and both
\* scale bounds 1.0, the returned image and annotation equal the inputs
\* pixel for pixel (no padding, class 0 stays 0).
C3_Identity ==
    (pc = "done" /\ IdentityCall) =>
        /\ cropped_padded_img = img_tensor
        /\ cropped_padded_annotation = annotation_tensor

\* Such a call has returned for a 3 x 3 input that holds class 0.
C3_Witness ==
    /\ pc = "done"
    /\ IdentityCall
    /\ InputShape = <<3, 3>>
    /\ 0 \in ClassesPresent
    /\ Cardinality(ClassesPresent) > 1
    /\ cropped_padded_annotation = annotation_tensor

---------------------------------------------------------------------------
(* C4 *)

\* C4: no call raises, and the scaled shape handed to the nearest-neighbour
\* resize is at least 1 on each axis.
C4_NeverRaises ==
    /\ pc # "error"
    /\ pc # "start" => (scaled_input_shape[1] >= 1 /\ scaled_input_shape[2] >= 1)

---------------------------------------------------------------------------
(* C5 *)

\* Along axis k, `before` rows/columns of padding and a crop offset `off`
\* describe a centred placement of the resized content.
CentredAxis(k, before, off) ==
    IF scaled_input_shape[k] < output_shape[k]
    THEN LET after == output_shape[k] - scaled_input_shape[k] - before IN
         /\ off = 0
         /\ after >= 0
         /\ before - after \in {-1, 0, 1}
    ELSE /\ before = 0
         /\ off + output_shape[k] <= scaled_input_shape[k]

\* C5: when the scaled shape is smaller than output_shape on an axis, the
\* resized content is one contiguous block, the padding before and after it
\* along that axis differs by at most 1 and adds up to the difference, every
\* padding pixel is 0 in the image and mask_out_number in the annotation,
\* and every pixel of the block is the resized content.
C5_CentredPad ==
    (/\ pc = "done"
     /\ \E k \in {1, 2} : scaled_input_shape[k] < output_shape[k]) =>
        \E top \in 0..output_shape[1], left \in 0..output_shape[2],
           ctop \in 0..scaled_input_shape[1], cleft \in 0..scaled_input_shape[2] :
            /\ CentredAxis(1, top, ctop)
            /\ CentredAxis(2, left, cleft)
            /\ \A y \in OutRows, x \in OutCols :
                IF /\ y > top /\ y <= top + Kept(1)
                   /\ x > left /\ x <= left + Kept(2)
                THEN /\ cropped_padded_img[y][x] =
                            resized_img[y - top + ctop][x - left + cleft]
                     /\ cropped_padded_annotation[y][x] =
                            resized_annotation[y - top + ctop][x - left + cleft]
                ELSE /\ cropped_padded_img[y][x] = 0
                     /\ cropped_padded_annotation[y][x] = mask_out_number

\* The 2 x 2 input of class 1 with output_shape (4, 4) and draw 0.5 has
\* returned a centred 2 x 2 block of class 1 inside a border of
\* mask_out_number.
C5_Witness ==
    /\ pc = "done"
    /\ annotation_tensor = <<<<1, 1>>, <<1, 1>>>>
    /\ output_shape = <<4, 4>>
    /\ rand_var = Half
    /\ scaled_input_shape = <<2, 2>>
    /\ LET b == mask_out_number IN
       cropped_padded_annotation =
            <<<<b, b, b, b>>, <<b, 1, 1, b>>, <<b, 1, 1, b>>, <<b, b, b, b>>>>

---------------------------------------------------------------------------
(* C7 *)

\* C7: with draw 1 the scaled shape equals output_shape on the constraining
\* axis and does not exceed it on the other; with a draw <= 1 it does not
\* exceed output_shape on either axis and all resized content is kept; with
\* a draw >= 1 it is at least output_shape on the constraining axis, along
\* which no padding appears.
C7_FitScale ==
    /\ pc \notin {"start"} =>
        /\ rand_var = One =>
              \A k \in {1, 2} :
                  /\ scaled_input_shape[k] <= output_shape[k]
                  /\ Constraining(k) => scaled_input_shape[k] = output_shape[k]
        /\ ~F32Less(One, rand_var) =>
              \A k \in {1, 2} : scaled_input_shape[k] <= output_shape[k]
        /\ ~F32Less(rand_var, One) =>
              \A k \in {1, 2} :
                  Constraining(k) => scaled_input_shape[k] >= output_shape[k]
    /\ (pc \in {"cropped", "done"} /\ ~F32Less(One, rand_var)) =>
        \E top \in 0..output_shape[1], left \in 0..output_shape[2] :
            /\ top + scaled_input_shape[1] <= output_shape[1]
            /\ left + scaled_input_shape[2] <= output_shape[2]
            /\ \A i \in 1..scaled_input_shape[1], j \in 1..scaled_input_shape[2] :
                    cropped_padded_img[top + i][left + j] = resized_img[i][j]
    /\ (pc = "cropped" /\ ~F32Less(rand_var, One)) =>
        /\ Constraining(1) =>
              \A y \in OutRows : \E x \in OutCols : cropped_padded_annotation[y][x] # 0
        /\ Constraining(2) =>
              \A x \in OutCols : \E y \in OutRows : cropped_padded_annotation[y][x] # 0

\* A draw of 1 on a 3 x 2 input for a 4 x 4 output: the height constrains,
\* the scaled shape is 4 x 3 and the width is padded.
C7_Witness ==
    /\ pc = "cropped"
    /\ rand_var = One
    /\ InputShape = <<3, 2>>
    /\ output_shape = <<4, 4>>
    /\ Constraining(1) /\ ~Constraining(2)
    /\ scaled_input_shape = <<4, 3>>

---------------------------------------------------------------------------
(* C8 *)

\* The annotation as the specification orders the steps: shift the classes
\* by one, resize, crop or pad, mask out and shift back.
SpecOrderAnnotation ==
    LET shifted == [i \in 1..InputShape[1] |-> [j \in 1..InputShape[2] |->
                        annotation_tensor[i][j] + 1]]
        resized == ResizeNearestNeighbor(shifted, scaled_input_shape)
        cropped == ResizeImageWithCropOrPad(resized, output_shape[1],
                                            output_shape[2])
    IN  [y \in OutRows |-> [x \in OutCols |->
            LET v     == cropped[y][x]
                isPad == IF v = 0 THEN 1 ELSE 0
            IN  v + isPad * (mask_out_number + 1) - 1]]

\* C8: shifting the classes before the resize (the specification's order)
\* and after it (the code's order) return the same annotation.
C8_ShiftOrder ==
    pc = "done" => cropped_padded_annotation = SpecOrderAnnotation

\* A return whose resize changed the shape of an annotation of several
\* classes and whose output shows both padding and content.
C8_Witness ==
    /\ pc = "done"
    /\ scaled_input_shape # InputShape
    /\ Cardinality(ClassesPresent) > 1
    /\ SomePad
    /\ SomeContent
    /\ cropped_padded_annotation = SpecOrderAnnotation

---------------------------------------------------------------------------
(* C9 *)

\* C9: at every output position either both outputs are padding (image 0,
\* annotation mask_out_number) or both show the same input pixel; before the
\* masking, the annotation is padding exactly where the image is.
C9_CoRegistered ==
    /\ pc = "done" =>
        \A y \in OutRows, x \in OutCols :
            \/ /\ IsPadPos(y, x)
               /\ cropped_padded_img[y][x] = 0
               /\ cropped_padded_annotation[y][x] = mask_out_number
            \/ /\ ~IsPadPos(y, x)
               /\ \E i \in 1..InputShape[1], j \in 1..InputShape[2] :
                    /\ cropped_padded_img[y][x] = img_tensor[i][j]
                    /\ cropped_padded_annotation[y][x] = annotation_tensor[i][j]
    /\ (pc = "cropped" /\ img_tensor[1][1] # 0) =>
        \A y \in OutRows, x \in OutCols :
            (cropped_padded_img[y][x] = 0) <=> (cropped_padded_annotation[y][x] = 0)

\* A return that was cropped along one axis and padded along the other, of
\* an input with several classes.
C9_Witness ==
    /\ pc = "done"
    /\ scaled_input_shape[1] > output_shape[1]
    /\ scaled_input_shape[2] < output_shape[2]
    /\ Cardinality(ClassesPresent) > 1
    /\ \E y \in OutRows, x \in OutCols :
            ~IsPadPos(y, x) /\ cropped_padded_img[y][x] # 0

---------------------------------------------------------------------------
(* C10 *)

\* C10: for class ids 0..255 the shifted classes are in 1..256, never 0, so
\* no pixel of the content is taken for padding and a pixel of class 255 is
\* returned as 255.
C10_NoWrap ==
    /\ pc \in {"shifted", "cropped", "done"} =>
        \A i \in 1..Height(annotation_shifted_classes),
           j \in 1..Width(annotation_shifted_classes) :
            annotation_shifted_classes[i][j] \in 1..256
    /\ pc = "cropped" =>
        \A y \in OutRows, x \in OutCols :
            ~IsPadPos(y, x) => cropped_padded_annotation[y][x] # 0
    /\ pc = "done" =>
        \A y \in OutRows, x \in OutCols :
            (/\ ~IsPadPos(y, x)
             /\ annotation_tensor[SourceIndex(y, 1)][SourceIndex(x, 2)] = 255)
                => cropped_padded_annotation[y][x] = 255

\* A return that shows a pixel of class 255 beside padding, with a
\* mask_out_number other than 255.
C10_Witness ==
    /\ pc = "done"
    /\ mask_out_number # 255
    /\ SomePad
    /\ \E y \in OutRows, x \in OutCols :
            /\ ~IsPadPos(y, x)
            /\ annotation_tensor[SourceIndex(y, 1)][SourceIndex(x, 2)] = 255
            /\ cropped_padded_annotation[y][x] = 255

====
